---- MODULE Spec2Model ----
(***************************************************************************)
(* Model of the retail-orders 3D dashboard ("Заказы ритейлеры").  The     *)
(* source file holds three near-duplicate Streamlit scripts:              *)
(*   variant 1  lines    1-429   column-tolerant script                   *)
(*   variant 2  lines  431-983   filters passed as a local dictionary     *)
(*   variant 3  lines  985-1524  all dimension columns required           *)
(* A session runs one of them.  Every user interaction (upload, widget    *)
(* change, button click) reruns main() from the top against the session   *)
(* state; each action below is one such rerun.                            *)
(*                                                                         *)
(* Cell values of the dimension columns are sequences of characters, so   *)
(* that sorting, lower-casing and substring search are computed.  The     *)
(* empty sequence is an empty CSV cell, which pandas reads as NaN.        *)
(* Metrics are naturals; a ratio is a pair <<numerator, denominator>>.    *)
(***************************************************************************)
EXTENDS Integers, Sequences, FiniteSets, TLC

VARIABLES
    variant,                \* which of the three scripts the session runs
    uploaded_file,          \* the file in the uploader: an index of Datasets, 0 for none
    filters,                \* the filters dictionary the last rerun built, if it built one
    current_filtered_data,  \* st.session_state.current_filtered_data
    current_entity_name,    \* st.session_state.current_entity_name
    report,                 \* the messages the last rerun put on the page
    plot,                   \* the figure the last rerun put on the page
    df_after                \* the frame the name df holds when a button's handler ends, if the last rerun ran one

vars == <<variant, uploaded_file, filters, current_filtered_data,
          current_entity_name, report, plot, df_after>>

\* Python's None where the other values are strings.
None == "None"

\* A dictionary or frame that may be None is a set of at most one element.
Nothing == {}
Some(x) == {x}
The(o) == CHOOSE x \in o : TRUE

\* An empty CSV cell (NaN after read_csv).
NaN == <<>>

\* The 'Все' sentinel of the filter widgets (transliterated).
Vse == <<"V", "s", "e">>

\* 'Старичок' / 'Новичок', the NRR segment labels (transliterated).
Starichok == <<"S", "t">>
Novichok == <<"N", "o">>

\* Column names: 'CP1 - ads', 'Orders delivered', 'Promo', 'Promo Новичка',
\* 'GMV NoP - ads', 'Direct fullfillment', written as identifiers.
CP1 == "CP1_ads"
Orders == "Orders_delivered"
Promo == "Promo"
PromoNov == "Promo_Novichka"
GMV == "GMV_NoP_ads"
Fulfil == "Direct_fullfillment"

MetricColumns == {CP1, Orders, Promo, GMV, Fulfil}
DimensionColumns == {"NRR", "dt", "flag", "type_store_delivery",
                     "retailer_name", "city_category", "user_id", "shipment_id"}
AllColumns == MetricColumns \cup DimensionColumns \cup {PromoNov}

\* Characters in code-point order (Python compares strings by code point).
Alphabet == <<"(", ".", "1", "2", "A", "B", "N", "S", "V", "X", "Y",
              "a", "b", "e", "f", "o", "s", "t", "u">>

CharRank(c) == CHOOSE i \in 1..Len(Alphabet) : Alphabet[i] = c

\* str.lower() on one character.
LowerChar(c) ==
    CASE c = "A" -> "a"
      [] c = "B" -> "b"
      [] c = "N" -> "n"
      [] c = "S" -> "s"
      [] c = "V" -> "v"
      [] c = "X" -> "x"
      [] c = "Y" -> "y"
      [] OTHER -> c

Lower(s) == [i \in 1..Len(s) |-> LowerChar(s[i])]

\* a < b for Python strings (lexicographic by code point).
RECURSIVE StrLess(_, _)
StrLess(a, b) ==
    IF b = <<>> THEN FALSE
    ELSE IF a = <<>> THEN TRUE
    ELSE IF a[1] = b[1] THEN StrLess(Tail(a), Tail(b))
    ELSE CharRank(a[1]) < CharRank(b[1])

\* Tuples of strings compared left to right (the order groupby sorts keys in).
RECURSIVE KeyLess(_, _)
KeyLess(k1, k2) ==
    IF k1 = <<>> \/ k2 = <<>> THEN FALSE
    ELSE IF k1[1] = k2[1] THEN KeyLess(Tail(k1), Tail(k2))
    ELSE StrLess(k1[1], k2[1])

Range(s) == {s[i] : i \in 1..Len(s)}

\* One CSV line with all fourteen columns.
Row(nrr, dt, flag, deliv, ret, city, user, ship, ads, ord, promo, pn, gmv, ful) ==
    [c \in AllColumns |->
        CASE c = "NRR" -> nrr
          [] c = "dt" -> dt
          [] c = "flag" -> flag
          [] c = "type_store_delivery" -> deliv
          [] c = "retailer_name" -> ret
          [] c = "city_category" -> city
          [] c = "user_id" -> user
          [] c = "shipment_id" -> ship
          [] c = CP1 -> ads
          [] c = Orders -> ord
          [] c = Promo -> promo
          [] c = PromoNov -> pn
          [] c = GMV -> gmv
          [] c = Fulfil -> ful]

\* pd.read_csv: a frame is its column set and its rows, each row a function
\* from the present columns to cell values.
Frame(cols, rows) ==
    [columns |-> cols,
     rows |-> [i \in 1..Len(rows) |-> [c \in cols |-> rows[i][c]]]]


(***************************************************************************)
(* Uploaded files the sessions are checked on.                             *)
(***************************************************************************)
S(c) == <<c>>

\* All fourteen columns.  Rows 1 and 4 are the same shipment; row 5 has no
\* delivered order.
FullRows ==
    << Row(Starichok, S("1"), S("f"), S("t"), <<"A", "b">>, S("X"), <<"u", "1">>, <<"s", "1">>,
           100, 20, 40, 0, 300, 60),
       Row(Starichok, S("1"), S("f"), S("t"), <<"A", "b">>, S("X"), <<"u", "1">>, <<"s", "2">>,
           10, 5, 5, 0, 50, 10),
       Row(Novichok, S("2"), S("f"), S("t"), S("B"), S("Y"), <<"u", "2">>, <<"s", "1">>,
           90, 15, 30, 0, 200, 45),
       Row(Starichok, S("1"), S("f"), S("t"), <<"A", "b">>, S("X"), <<"u", "1">>, <<"s", "1">>,
           20, 10, 10, 0, 100, 40),
       Row(Novichok, S("2"), S("f"), S("t"), S("B"), S("Y"), <<"u", "2">>, <<"s", "2">>,
           0, 0, 0, 0, 0, 0) >>

\* The three rows of the end-to-end example: retailer, city and the metrics.
ExampleRows ==
    << Row(NaN, NaN, NaN, NaN, S("A"), S("X"), NaN, NaN, 100, 20, 40, 0, 300, 60),
       Row(NaN, NaN, NaN, NaN, S("A"), S("X"), NaN, NaN, 10, 5, 5, 0, 50, 10),
       Row(NaN, NaN, NaN, NaN, S("B"), S("Y"), NaN, NaN, 90, 15, 30, 0, 200, 45) >>

\* Two shipments of one retailer; the second row has an empty user_id cell.
NullUserRows ==
    << Row(Starichok, S("1"), S("f"), S("t"), S("A"), S("X"), <<"u", "1">>, <<"s", "1">>,
           100, 20, 40, 0, 300, 60),
       Row(Starichok, S("1"), S("f"), S("t"), S("A"), S("X"), NaN, <<"s", "2">>,
           30, 15, 15, 0, 150, 30) >>

\* retailer_name has an empty cell next to a name.
NullRetailerRows ==
    << Row(NaN, NaN, NaN, NaN, S("A"), NaN, NaN, NaN, 100, 20, 40, 0, 300, 60),
       Row(NaN, NaN, NaN, NaN, NaN, NaN, NaN, NaN, 30, 15, 15, 0, 150, 30) >>

\* The files: every column; the example's columns; every column but 'Promo
\* Новичка'; every column but 'Promo'; the five metrics alone; the metrics
\* and a retailer column with an empty cell.
Datasets ==
    << Frame(AllColumns, FullRows),
       Frame(MetricColumns \cup {"retailer_name", "city_category"}, ExampleRows),
       Frame(AllColumns \ {PromoNov}, NullUserRows),
       Frame(AllColumns \ {Promo}, NullUserRows),
       Frame(MetricColumns, ExampleRows),
       Frame(MetricColumns \cup {"retailer_name"}, NullRetailerRows) >>

DatasetIds == 1..Len(Datasets)

(***************************************************************************)
(* Column access.                                                          *)
(***************************************************************************)
Has(d, col) == col \in d.columns

\* df[col].unique()
Unique(d, col) == {d.rows[i][col] : i \in 1..Len(d.rows)}

\* sorted(df[col].unique().tolist()) raises TypeError when the values mix NaN
\* (a float) with strings.
SortRaises(d, col) == NaN \in Unique(d, col) /\ Unique(d, col) # {NaN}

\* `t in s` for Python strings.
Contains(s, t) ==
    \E i \in 0..(Len(s) - Len(t)) : SubSeq(s, i + 1, i + Len(t)) = t

\* re.compile(pat): an unbalanced parenthesis is an error.
RegexCompiles(pat) == "(" \notin Range(pat)

\* Series.str.contains(pat, case=False, na=False): a regular-expression search
\* ignoring case; '.' matches any character, NaN cells give False.
StrContains(s, pat) ==
    /\ s # NaN
    /\ \E i \in 0..(Len(s) - Len(pat)) :
          \A j \in 1..Len(pat) :
              pat[j] = "." \/ LowerChar(pat[j]) = LowerChar(s[i + j])

(***************************************************************************)
(* main(): validation of the uploaded frame.                               *)
(***************************************************************************)
\* required_columns of the three scripts, in list order.
RequiredColumns(v) ==
    CASE v = 1 -> <<CP1, Orders, Promo, GMV, Fulfil>>
      [] v = 2 -> <<"user_id", "shipment_id", "retailer_name", "city_category">>
      [] v = 3 -> <<"user_id", "shipment_id", "retailer_name", "city_category",
                    "NRR", "dt", "flag", "type_store_delivery",
                    CP1, Orders, Promo, GMV, Fulfil>>

\* missing_required / missing_columns
MissingColumns(v, d) == SelectSeq(RequiredColumns(v), LAMBDA c : ~Has(d, c))

\* Scripts 1 and 3 return on a missing column; script 2 reports and goes on.
ValidationBlocks(v, d) == v \in {1, 3} /\ MissingColumns(v, d) # <<>>

\* The columns the filter widgets are built from.
FilterColumns == <<"NRR", "dt", "flag", "type_store_delivery",
                   "retailer_name", "city_category">>

\* The exception raised while the filter widgets are built, or None.  Script 1
\* skips an absent column; scripts 2 and 3 index it (KeyError).
SetupError(v, d) ==
    IF v # 1 /\ \E i \in 1..Len(FilterColumns) : ~Has(d, FilterColumns[i])
    THEN "KeyError"
    ELSE IF \E i \in 1..Len(FilterColumns) :
                Has(d, FilterColumns[i]) /\ SortRaises(d, FilterColumns[i])
    THEN "TypeError"
    ELSE None

(***************************************************************************)
(* Filter widgets: options, defaults, choices.                             *)
(***************************************************************************)
\* ['Все'] + sorted(df[col].unique().tolist()), as a set.
WithVse(d, col) == {Vse} \cup (IF Has(d, col) THEN Unique(d, col) ELSE {})

NrrOptions(v, d) == IF v = 1 THEN WithVse(d, "NRR") ELSE Unique(d, "NRR")

\* filtered_retailers: the retailer choices narrowed by the search text.
RetailerOptions(d, search) ==
    IF search # <<>>
    THEN {Vse} \cup {r \in Unique(d, "retailer_name") :
                        r # NaN /\ Contains(Lower(r), Lower(search))}
    ELSE WithVse(d, "retailer_name")

\* available_cities: scripts 1 and 3 narrow the cities by the chosen
\* retailers, script 2 offers every city.
CityOptions(v, d, retailers) ==
    IF v = 2 \/ Vse \in retailers \/ retailers = {} \/ ~Has(d, "retailer_name")
    THEN WithVse(d, "city_category")
    ELSE {Vse} \cup {d.rows[i]["city_category"] :
                        i \in {j \in 1..Len(d.rows) :
                                 d.rows[j]["retailer_name"] \in retailers}}

\* granulation_options, in list order.
GranulationOptions(v, d) ==
    IF v = 1
    THEN (IF Has(d, "user_id") /\ Has(d, "shipment_id")
          THEN <<"Shipment Level", "User Level">> ELSE <<>>)
         \o <<"Overall Level", "Date Level", "Retailer Level", "City Level">>
    ELSE <<"Shipment Level", "User Level", "Retailer Level", "City Level",
           "Retailer + City Level">>

\* First element of sorted(values).
MinStr(values) == CHOOSE x \in values : \A y \in values \ {x} : StrLess(x, y)

\* value=10 of the 'Мин. заказов' number input.
DefaultMinOrders == 10

\* What the widgets hold before the user touches them.
DefaultFilters(v, d) ==
    [target_nrr |-> IF v = 1 THEN Vse
                    ELSE IF v = 2 /\ Starichok \in NrrOptions(v, d) THEN Starichok
                    ELSE MinStr(NrrOptions(v, d)),
     dates |-> {Vse},
     flags |-> {Vse},
     delivery |-> {Vse},
     retailers |-> {Vse},
     cities |-> {Vse},
     retailer_search |-> <<>>,
     min_orders |-> DefaultMinOrders,
     granulation |-> GranulationOptions(v, d)[1]]

\* Texts typed into the retailer search box.
SearchTerms == {<<>>, <<"b">>, <<".">>, <<"(">>}

\* Values entered into the minimum-orders input (min_value=1, max_value=1000).
MinOrdersChoices == {1, 10, 16}

Widgets == {"target_nrr", "dates", "flags", "delivery", "retailers", "cities",
            "retailer_search", "min_orders", "granulation"}

\* The values the user can give widget w while the other widgets hold f.
\* Script 1 shows the retailer and city widgets only for a present column.
Choices(v, d, f, w) ==
    CASE w = "target_nrr" -> NrrOptions(v, d)
      [] w = "dates" -> SUBSET WithVse(d, "dt")
      [] w = "flags" -> SUBSET WithVse(d, "flag")
      [] w = "delivery" -> SUBSET WithVse(d, "type_store_delivery")
      [] w = "retailer_search" ->
            IF v = 1 /\ ~Has(d, "retailer_name") THEN {<<>>} ELSE SearchTerms
      [] w = "retailers" ->
            IF v = 1 /\ ~Has(d, "retailer_name") THEN {{Vse}}
            ELSE SUBSET RetailerOptions(d, f.retailer_search)
      [] w = "cities" ->
            IF v = 1 /\ ~Has(d, "city_category") THEN {{Vse}}
            ELSE SUBSET CityOptions(v, d, f.retailers)
      [] w = "min_orders" -> MinOrdersChoices
      [] w = "granulation" -> Range(GranulationOptions(v, d))

\* A multiselect whose option list changed is a new widget and shows its
\* default again: the retailer list follows the search text, the city list
\* follows the chosen retailers.
Redraw(v, d, old, new) ==
    LET r == IF new.retailer_search = old.retailer_search
                \/ RetailerOptions(d, new.retailer_search)
                      = RetailerOptions(d, old.retailer_search)
             THEN new.retailers ELSE {Vse}
        c == IF r = old.retailers
                \/ CityOptions(v, d, r) = CityOptions(v, d, old.retailers)
             THEN new.cities ELSE {Vse}
    IN  [new EXCEPT !.retailers = r, !.cities = c]

\* How many widgets are off their default.
Touched(default, f) == Cardinality({w \in Widgets : f[w] # default[w]})

\* At most this many widgets are off their default at a time.
MaxTouched == 1

(***************************************************************************)
(* apply_filters: one operator per predicate of the chain.                 *)
(***************************************************************************)
\* Script 1 guards every dimension filter by `col in df.columns`.
Filterable(v, d, col) == v # 1 \/ Has(d, col)

\* filtered_df[filtered_df['NRR'] == filters['target_nrr']]
FilterNRR(v, d, f, rows) ==
    IF Filterable(v, d, "NRR") /\ f.target_nrr # Vse
    THEN SelectSeq(rows, LAMBDA r : r["NRR"] = f.target_nrr)
    ELSE rows

\* The isin filter without the test for 'Все' among the chosen values.
FilterIsinNoSentinel(v, d, col, selected, rows) ==
    IF Filterable(v, d, col)
    THEN SelectSeq(rows, LAMBDA r : r[col] \in selected)
    ELSE rows

\* The isin filter skipped only when 'Все' is the whole selection.
FilterIsinOnlyAll(v, d, col, selected, rows) ==
    IF Filterable(v, d, col) /\ selected # {Vse}
    THEN SelectSeq(rows, LAMBDA r : r[col] \in selected)
    ELSE rows

\* filtered_df[filtered_df[col].isin(selected)] unless 'Все' is selected.
FilterIsin(v, d, col, selected, rows) ==
    IF Filterable(v, d, col) /\ Vse \notin selected
    THEN SelectSeq(rows, LAMBDA r : r[col] \in selected)
    ELSE rows

\* The retailer search box, applied when it holds text.
FilterSearch(v, d, f, rows) ==
    IF Filterable(v, d, "retailer_name") /\ f.retailer_search # <<>>
    THEN SelectSeq(rows, LAMBDA r : StrContains(r["retailer_name"], f.retailer_search))
    ELSE rows

\* The threshold with a strict comparison.
MinOrdersStrict(f, rows) == SelectSeq(rows, LAMBDA r : r[Orders] > f.min_orders)

\* The threshold applied to the advertising column.
MinOrdersOnAds(f, rows) == SelectSeq(rows, LAMBDA r : r[CP1] >= f.min_orders)

\* filtered_df[filtered_df['Orders delivered'] >= filters['min_orders']]
FilterMinOrders(f, rows) == SelectSeq(rows, LAMBDA r : r[Orders] >= f.min_orders)

\* One predicate of the chain, by name.
FilterStep(v, d, f, step, rows) ==
    CASE step = "NRR" -> FilterNRR(v, d, f, rows)
      [] step = "dt" -> FilterIsin(v, d, "dt", f.dates, rows)
      [] step = "flag" -> FilterIsin(v, d, "flag", f.flags, rows)
      [] step = "type_store_delivery" ->
            FilterIsin(v, d, "type_store_delivery", f.delivery, rows)
      [] step = "retailer_name" -> FilterIsin(v, d, "retailer_name", f.retailers, rows)
      [] step = "city_category" -> FilterIsin(v, d, "city_category", f.cities, rows)
      [] step = "search" -> FilterSearch(v, d, f, rows)
      [] step = "min_orders" -> FilterMinOrders(f, rows)

\* The predicates in the order apply_filters applies them.
FilterOrder == <<"NRR", "dt", "flag", "type_store_delivery", "retailer_name",
                 "city_category", "search", "min_orders">>

RECURSIVE FilterChain(_, _, _, _, _)
FilterChain(v, d, f, steps, rows) ==
    IF steps = <<>> THEN rows
    ELSE FilterChain(v, d, f, Tail(steps), FilterStep(v, d, f, steps[1], rows))

\* The exception apply_filters raises, or None: the search text is compiled as
\* a regular expression, and script 2 never checked the metric columns.
ApplyError(v, d, f) ==
    IF Filterable(v, d, "retailer_name") /\ f.retailer_search # <<>>
       /\ ~RegexCompiles(f.retailer_search)
    THEN "re.error"
    ELSE IF ~Has(d, Orders) THEN "KeyError"
    ELSE None

\* The rows apply_filters returns (df itself is only copied).
apply_filters(v, d, f) == FilterChain(v, d, f, FilterOrder, d.rows)

(***************************************************************************)
(* The frame objects of one run of apply_filters: objects[i] is the frame  *)
(* of the i-th object made, the frame read from the file is object 1 and   *)
(* the name filtered_df holds the last object made.                        *)
(***************************************************************************)
DfObject == 1

\* df.copy(): a new object with the content of object i.
Copy(objects, i) == Append(objects, objects[i])

\* filtered_df = filtered_df[mask]: boolean indexing makes a new object and
\* leaves the indexed one as it was.
Indexed(objects, i, rows) == Append(objects, [objects[i] EXCEPT !.rows = rows])

\* The filters of the chain, each indexing the object filtered_df holds.
RECURSIVE ObjectsChain(_, _, _, _, _)
ObjectsChain(v, d, f, steps, objects) ==
    IF steps = <<>> THEN objects
    ELSE ObjectsChain(v, d, f, Tail(steps),
                      Indexed(objects, Len(objects),
                              FilterStep(v, d, f, steps[1], objects[Len(objects)].rows)))

\* The filtering done on the frame read from the file itself: no copy, the
\* rows that fail a filter dropped in place.
ObjectsDroppedInPlace(v, d, f) == <<[d EXCEPT !.rows = apply_filters(v, d, f)]>>

\* The objects after apply_filters(df, filters): df, its copy, and one frame
\* per filter; a search text that does not compile stops the run at the copy.
ObjectsAfterFilters(v, d, f) ==
    IF ApplyError(v, d, f) = "re.error"
    THEN Copy(<<d>>, DfObject)
    ELSE ObjectsChain(v, d, f, FilterOrder, Copy(<<d>>, DfObject))

(***************************************************************************)
(* analyze_data_by_granulation                                             *)
(***************************************************************************)
RECURSIVE GCD(_, _)
GCD(a, b) == IF b = 0 THEN a ELSE GCD(b, a % b)

\* a / b on floats, as a fraction in lowest terms; x/0 is inf (<<1, 0>>) and
\* 0/0 is NaN (<<0, 0>>), neither raises.
Div(a, b) ==
    IF b = 0 THEN (IF a = 0 THEN <<0, 0>> ELSE <<1, 0>>)
    ELSE <<a \div GCD(a, b), b \div GCD(a, b)>>

\* entity_name, script 1: a level whose column is absent falls to 'overall'.
EntityName1(d, level) ==
    CASE level = "Shipment Level" /\ Has(d, "user_id") /\ Has(d, "shipment_id")
            -> "shipments"
      [] level = "User Level" /\ Has(d, "user_id") -> "users"
      [] level = "Retailer Level" /\ Has(d, "retailer_name") -> "retailers"
      [] level = "City Level" /\ Has(d, "city_category") -> "cities"
      [] level = "Date Level" /\ Has(d, "dt") -> "dates"
      [] OTHER -> "overall"

\* entity_name, scripts 2 and 3.
EntityName23(level) ==
    CASE level = "Shipment Level" -> "shipments"
      [] level = "User Level" -> "users"
      [] level = "Retailer Level" -> "retailers"
      [] level = "City Level" -> "cities"
      [] level = "Retailer + City Level" -> "ret+city"

EntityName(v, d, level) == IF v = 1 THEN EntityName1(d, level) ELSE EntityName23(level)

\* The primary key of script 1 by entity.
PrimaryColumns(entity) ==
    CASE entity = "shipments" -> <<"user_id", "shipment_id">>
      [] entity = "users" -> <<"user_id">>
      [] entity = "retailers" -> <<"retailer_name">>
      [] entity = "cities" -> <<"city_category">>
      [] entity = "dates" -> <<"dt">>
      [] OTHER -> <<>>

\* optional_columns appended to the key by script 1.
OptionalGroupColumns == <<"dt", "flag", "type_store_delivery", "retailer_name",
                          "city_category">>

\* The loop without its body: nothing is appended to the primary key.
AppendNothing(d, primary) == primary

\* for col in optional_columns: append col if present and not yet in the key.
AppendOptional(d, primary) ==
    primary \o SelectSeq(OptionalGroupColumns,
                         LAMBDA c : Has(d, c) /\ c \notin Range(primary))

\* group_columns: script 1 appends every present optional column not yet in
\* the key; scripts 2 and 3 use fixed lists.
GroupColumns(v, d, level) ==
    IF v = 1
    THEN AppendOptional(d, PrimaryColumns(EntityName1(d, level)))
    ELSE CASE level = "Shipment Level" ->
                <<"user_id", "shipment_id", "dt", "flag", "type_store_delivery",
                  "retailer_name", "city_category">>
           [] level = "User Level" ->
                <<"user_id", "dt", "flag", "type_store_delivery", "retailer_name",
                  "city_category">>
           [] level = "Retailer Level" ->
                <<"retailer_name", "dt", "flag", "type_store_delivery">>
           [] level = "City Level" ->
                <<"city_category", "dt", "flag", "type_store_delivery">>
           [] level = "Retailer + City Level" ->
                <<"retailer_name", "dt", "flag", "type_store_delivery",
                  "city_category">>

\* The columns .agg sums: scripts 2 and 3 also sum 'Promo Новичка'.
SummedColumns(v) ==
    IF v = 1 THEN <<CP1, Orders, Promo, GMV, Fulfil>>
    ELSE <<CP1, Orders, Promo, PromoNov, GMV, Fulfil>>

RatioColumns == {"CP1_ads_per_order", "promo_per_order", "fulfillment_per_order",
                 "gmv_per_order"}

\* The raw column a ratio column divides by the delivered orders.
Numerator(ratio) ==
    CASE ratio = "CP1_ads_per_order" -> CP1
      [] ratio = "promo_per_order" -> Promo
      [] ratio = "fulfillment_per_order" -> Fulfil
      [] ratio = "gmv_per_order" -> GMV

\* The key of a row under the grouping columns.
KeyOf(r, cols) == [i \in 1..Len(cols) |-> r[cols[i]]]

\* The groups DataFrame.groupby forms: rows with NaN in a key column belong
\* to no group (dropna=True is the default).
KeptKeys(rows, cols) ==
    {k \in {KeyOf(rows[i], cols) : i \in 1..Len(rows)} : NaN \notin Range(k)}

\* The sum of column col over the first n rows.
RECURSIVE SumTo(_, _, _)
SumTo(rows, col, n) == IF n = 0 THEN 0 ELSE SumTo(rows, col, n - 1) + rows[n][col]

\* column.sum() over a sequence of rows.
ColumnSum(rows, col) == SumTo(rows, col, Len(rows))

\* The ratios with the fulfilment line copied from the promo line.
RatioCopyPaste(sums, ratio) ==
    Div(sums[IF ratio = "fulfillment_per_order" THEN Promo ELSE Numerator(ratio)],
        sums[Orders])

\* grouped_metrics[ratio] = grouped_metrics[metric] / grouped_metrics['Orders delivered']
Ratio(sums, ratio) == Div(sums[Numerator(ratio)], sums[Orders])

\* .agg({...: 'sum'}) on one group: the sum of every summed column.
GroupSums(v, members) == [c \in Range(SummedColumns(v)) |-> ColumnSum(members, c)]

\* The row of a group from its key and its sums: the key columns, the summed
\* columns and the four ratio columns.
RowOfSums(v, cols, key, sums) ==
    [c \in Range(cols) |-> key[CHOOSE i \in 1..Len(cols) : cols[i] = c]]
        @@ sums
        @@ [c \in RatioColumns |-> Ratio(sums, c)]

\* One row of grouped_metrics: the key columns, the sums, the four ratios.
AggregatedRow(v, cols, key, members) ==
    RowOfSums(v, cols, key, GroupSums(v, members))

\* The group keys in the ascending order groupby(sort=True) lists them.
RECURSIVE SortedKeys(_)
SortedKeys(keys) ==
    IF keys = {} THEN <<>>
    ELSE LET first == CHOOSE k \in keys : \A other \in keys \ {k} : KeyLess(k, other)
         IN  <<first>> \o SortedKeys(keys \ {first})

\* One aggregated row per key, in the order of `keys`.
RowsOfKeys(v, rows, cols, keys) ==
    [i \in 1..Len(keys) |->
        AggregatedRow(v, cols, keys[i],
                      SelectSeq(rows, LAMBDA r : KeyOf(r, cols) = keys[i]))]

\* grouped_metrics for a non-empty filtered frame: groupby sorts the groups by
\* key; without grouping columns there is exactly one row.
GroupedMetrics(v, rows, cols) ==
    IF cols = <<>>
    THEN <<AggregatedRow(v, cols, <<>>, rows)>>
    ELSE RowsOfKeys(v, rows, cols, SortedKeys(KeptKeys(rows, cols)))

\* The exception grouping raises, or None: a grouping or summed column the
\* frame does not have.
AggregateError(v, d, level) ==
    IF \E c \in Range(GroupColumns(v, d, level)) \cup Range(SummedColumns(v)) : ~Has(d, c)
    THEN "KeyError"
    ELSE None

\* analyze_data_by_granulation after `filtered_df = apply_filters(df, filters)`:
\* the (None, message) pair of an empty filter result, an exception of the
\* grouping, or (grouped_metrics, entity_name).
AnalyzeFiltered(v, d, f, filtered_df) ==
    IF Len(filtered_df) = 0
    THEN [raised |-> None, data |-> Nothing, entity |-> "no data for the chosen filters"]
    ELSE IF AggregateError(v, d, f.granulation) # None
    THEN [raised |-> AggregateError(v, d, f.granulation)]
    ELSE [raised |-> None,
          data |-> Some(GroupedMetrics(v, filtered_df, GroupColumns(v, d, f.granulation))),
          entity |-> EntityName(v, d, f.granulation)]

\* analyze_data_by_granulation: an exception, the (None, message) pair of an
\* empty filter result, or (grouped_metrics, entity_name).
analyze_data_by_granulation(v, d, f) ==
    IF ApplyError(v, d, f) # None
    THEN [raised |-> ApplyError(v, d, f)]
    ELSE AnalyzeFiltered(v, d, f, apply_filters(v, d, f))

(***************************************************************************)
(* check_data_size: summary and size tier.                                 *)
(***************************************************************************)
\* The columns whose distinct values the summary counts.
SummaryColumns(v, entity) ==
    IF v = 1 THEN {}
    ELSE CASE entity = "shipments" -> {"user_id", "retailer_name", "city_category"}
           [] entity = "users" -> {"user_id", "retailer_name"}
           [] entity = "retailers" -> {"retailer_name"}
           [] entity = "cities" -> {"city_category"}
           [] entity = "ret+city" ->
                IF v = 2 THEN {"user_id", "retailer_name"}
                ELSE {"retailer_name", "city_category"}
           [] OTHER -> {}

\* filtered_data[col].nunique() on a column grouped_metrics lacks is a KeyError.
SummaryError(v, d, f) ==
    IF SummaryColumns(v, EntityName(v, d, f.granulation))
          \subseteq Range(GroupColumns(v, d, f.granulation))
    THEN None
    ELSE "KeyError"

OversizedAbove == 10000
ResponsiveAbove == 5000

\* The size message of scripts 2 and 3; script 1 prints none.
SizeTier(v, num_points) ==
    IF v = 1 THEN None
    ELSE IF num_points > OversizedAbove THEN "oversized"
    ELSE IF num_points > ResponsiveAbove THEN "responsive"
    ELSE "comfortable"

(***************************************************************************)
(* The page of one rerun.                                                  *)
(***************************************************************************)
\* button: the button the rerun handled; kind: the closing message; error: the
\* exception the except clause of main() printed; missing: the columns listed
\* as missing; tier: the size message.
Page(button, kind, err, missing, tier) ==
    [button |-> button, kind |-> kind, error |-> err, missing |-> missing,
     tier |-> tier]

\* The frame read from the uploaded file.
df == Datasets[uploaded_file]

\* The filter widgets and the two buttons are on the page.
ControlsShown(v, id) ==
    /\ id # 0
    /\ ~ValidationBlocks(v, Datasets[id])
    /\ SetupError(v, Datasets[id]) = None

\* The page main() builds when no button is pressed.
LoadPage(v, id) ==
    IF id = 0 THEN Page("none", "awaiting upload", None, <<>>, None)
    ELSE IF ValidationBlocks(v, Datasets[id])
    THEN Page("none", "missing columns", None, MissingColumns(v, Datasets[id]), None)
    ELSE IF SetupError(v, Datasets[id]) # None
    THEN Page("none", "read error", SetupError(v, Datasets[id]),
              MissingColumns(v, Datasets[id]), None)
    ELSE Page("none", "filters shown", None, MissingColumns(v, Datasets[id]), None)

\* The rerun that follows an upload, per script and file: its page and the
\* filters dictionary it builds.
FirstRun ==
    [v \in 1..3 |->
        [id \in 0..Len(Datasets) |->
            [page |-> LoadPage(v, id),
             filters |-> IF ControlsShown(v, id)
                         THEN Some(DefaultFilters(v, Datasets[id]))
                         ELSE Nothing]]]

Init ==
    /\ variant \in 1..3
    /\ uploaded_file = 0
    /\ filters = Nothing
    /\ current_filtered_data = Nothing
    /\ current_entity_name = None
    /\ report = LoadPage(variant, 0)
    /\ plot = Nothing
    /\ df_after = Nothing

\* The user puts a file into the uploader.  The widgets of a new frame show
\* their defaults.  A rerun that stops before the widgets builds no filters
\* dictionary (what scripts 1 and 3 left in st.session_state.filters is
\* overwritten by the next rerun that reaches the widgets, before any read).
Upload(id) ==
    /\ uploaded_file' = id
    /\ filters' = FirstRun[variant][id].filters
    /\ report' = FirstRun[variant][id].page
    /\ plot' = Nothing
    /\ df_after' = Nothing
    /\ UNCHANGED <<variant, current_filtered_data, current_entity_name>>

\* The user clears the uploader.
RemoveFile ==
    /\ uploaded_file # 0
    /\ uploaded_file' = 0
    /\ filters' = Nothing
    /\ report' = FirstRun[variant][0].page
    /\ plot' = Nothing
    /\ df_after' = Nothing
    /\ UNCHANGED <<variant, current_filtered_data, current_entity_name>>

\* The user changes one filter widget: the script reruns, the filters
\* dictionary is rebuilt from the widgets, no button is pressed.
ChangeWidget(w) ==
    /\ \E old \in filters :
          \E value \in Choices(variant, df, old, w) \ {old[w]} :
             \E new \in {Redraw(variant, df, old, [old EXCEPT ![w] = value])} :
                /\ Touched(The(FirstRun[variant][uploaded_file].filters), new) <= MaxTouched
                /\ filters' = Some(new)
    /\ report' = FirstRun[variant][uploaded_file].page
    /\ plot' = Nothing
    /\ df_after' = Nothing
    /\ UNCHANGED <<variant, uploaded_file, current_filtered_data, current_entity_name>>

\* What one press of the apply button leaves behind: the page and the two
\* session values.
Outcome(page, data, entity) == [page |-> page, data |-> data, entity |-> entity]

\* check_data_size storing the result before it prints the summary.
CheckDataSizeStoresFirst(v, d, f, old_data, old_entity) ==
    LET res == analyze_data_by_granulation(v, d, f)
    IN  IF res.raised # None
        THEN Outcome(Page("apply", "read error", res.raised, MissingColumns(v, d), None),
                     old_data, old_entity)
        ELSE IF res.data = Nothing
        THEN IF v = 1
             THEN Outcome(Page("apply", "no data", None, MissingColumns(v, d), None),
                          Nothing, old_entity)
             ELSE Outcome(Page("apply", "read error", "TypeError", MissingColumns(v, d), None),
                          old_data, old_entity)
        ELSE IF SummaryError(v, d, f) # None
        THEN Outcome(Page("apply", "read error", SummaryError(v, d, f), MissingColumns(v, d), None),
                     res.data, res.entity)
        ELSE Outcome(Page("apply", "data ready", None, MissingColumns(v, d),
                          SizeTier(v, Len(The(res.data)))),
                     res.data, res.entity)

\* check_data_size keeping the stored frame when one with the same entity
\* label is already stored.
CheckDataSizeCached(v, d, f, old_data, old_entity) ==
    LET res == analyze_data_by_granulation(v, d, f)
    IN  IF res.raised # None
        THEN Outcome(Page("apply", "read error", res.raised, MissingColumns(v, d), None),
                     old_data, old_entity)
        ELSE IF res.data = Nothing
        THEN IF v = 1
             THEN Outcome(Page("apply", "no data", None, MissingColumns(v, d), None),
                          Nothing, old_entity)
             ELSE Outcome(Page("apply", "read error", "TypeError", MissingColumns(v, d), None),
                          old_data, old_entity)
        ELSE IF SummaryError(v, d, f) # None
        THEN Outcome(Page("apply", "read error", SummaryError(v, d, f), MissingColumns(v, d), None),
                     old_data, old_entity)
        ELSE IF old_data # Nothing /\ old_entity = res.entity
        THEN Outcome(Page("apply", "data ready", None, MissingColumns(v, d),
                          SizeTier(v, Len(The(old_data)))),
                     old_data, old_entity)
        ELSE Outcome(Page("apply", "data ready", None, MissingColumns(v, d),
                          SizeTier(v, Len(The(res.data)))),
                     res.data, res.entity)

\* The body of check_data_size returning after the warning for a large frame.
CheckAggregatedStopsOversized(v, d, f, res, old_data, old_entity) ==
    IF res.raised # None
    THEN Outcome(Page("apply", "read error", res.raised, MissingColumns(v, d), None),
                 old_data, old_entity)
    ELSE IF res.data = Nothing
    THEN IF v = 1
         THEN Outcome(Page("apply", "no data", None, MissingColumns(v, d), None),
                      Nothing, old_entity)
         ELSE Outcome(Page("apply", "read error", "TypeError", MissingColumns(v, d), None),
                      old_data, old_entity)
    ELSE IF SummaryError(v, d, f) # None
    THEN Outcome(Page("apply", "read error", SummaryError(v, d, f), MissingColumns(v, d), None),
                 old_data, old_entity)
    ELSE IF SizeTier(v, Len(The(res.data))) = "oversized"
    THEN Outcome(Page("apply", "too many points", None, MissingColumns(v, d), "oversized"),
                 old_data, old_entity)
    ELSE Outcome(Page("apply", "data ready", None, MissingColumns(v, d),
                      SizeTier(v, Len(The(res.data)))),
                 res.data, res.entity)

\* The body of check_data_size storing the frame and leaving the label as it
\* was.
CheckAggregatedKeepsLabel(v, d, f, res, old_data, old_entity) ==
    IF res.raised # None
    THEN Outcome(Page("apply", "read error", res.raised, MissingColumns(v, d), None),
                 old_data, old_entity)
    ELSE IF res.data = Nothing
    THEN IF v = 1
         THEN Outcome(Page("apply", "no data", None, MissingColumns(v, d), None),
                      Nothing, old_entity)
         ELSE Outcome(Page("apply", "read error", "TypeError", MissingColumns(v, d), None),
                      old_data, old_entity)
    ELSE IF SummaryError(v, d, f) # None
    THEN Outcome(Page("apply", "read error", SummaryError(v, d, f), MissingColumns(v, d), None),
                 old_data, old_entity)
    ELSE Outcome(Page("apply", "data ready", None, MissingColumns(v, d),
                      SizeTier(v, Len(The(res.data)))),
                 res.data, old_entity)

\* The body of check_data_size once analyze_data_by_granulation has returned
\* `res`: the None / error test, the count, the summary, the size message, the
\* storing.
CheckAggregated(v, d, f, res, old_data, old_entity) ==
    IF res.raised # None
    THEN Outcome(Page("apply", "read error", res.raised, MissingColumns(v, d), None),
                 old_data, old_entity)
    ELSE IF res.data = Nothing
    THEN IF v = 1
         THEN Outcome(Page("apply", "no data", None, MissingColumns(v, d), None),
                      Nothing, old_entity)
         ELSE Outcome(Page("apply", "read error", "TypeError", MissingColumns(v, d), None),
                      old_data, old_entity)
    ELSE IF SummaryError(v, d, f) # None
    THEN Outcome(Page("apply", "read error", SummaryError(v, d, f), MissingColumns(v, d), None),
                 old_data, old_entity)
    ELSE Outcome(Page("apply", "data ready", None, MissingColumns(v, d),
                      SizeTier(v, Len(The(res.data)))),
                 res.data, res.entity)

\* check_data_size and, for script 2, the storing by its caller.  An exception
\* leaves through the except clause of main(), which reports a file-read
\* error.  Script 1 tests `filtered_data is None`; scripts 2 and 3 test
\* isinstance(filtered_data, str), which None is not, and go on to len(None).
check_data_size(v, d, f, old_data, old_entity) ==
    CheckAggregated(v, d, f, analyze_data_by_granulation(v, d, f), old_data, old_entity)

\* The user presses 'Применить Фильтры и Проверить Данные'; the button exists
\* on a rerun that built the widgets.
ApplyClick ==
    /\ filters # Nothing
    /\ \E out \in {check_data_size(variant, df, The(filters), current_filtered_data,
                                     current_entity_name)} :
          /\ report' = out.page
          /\ current_filtered_data' = out.data
          /\ current_entity_name' = out.entity
    /\ plot' = Nothing
    /\ df_after' = Some(ObjectsAfterFilters(variant, df, The(filters))[DfObject])
    /\ UNCHANGED <<variant, uploaded_file, filters>>

(***************************************************************************)
(* The figure and the ranking under it.  The minimum-orders input is at    *)
(* least 1, so every aggregated row has delivered orders and its ratios    *)
(* are finite.                                                             *)
(***************************************************************************)
\* a < b for two ratios with a positive denominator.
RatioLess(a, b) == a[1] * b[2] < b[1] * a[2]

\* f"{x:.0f}": the nearest integer, a tie going to the even one.
Format0(x) ==
    IF x[2] = 0 THEN (IF x[1] = 0 THEN "nan" ELSE "inf")
    ELSE LET q == x[1] \div x[2]
             r == x[1] % x[2]
         IN  IF 2 * r < x[2] THEN q
             ELSE IF 2 * r > x[2] THEN q + 1
             ELSE IF q % 2 = 0 THEN q ELSE q + 1

\* The columns a point's hover text shows, in the order of its lines.
HoverColumns(v, entity) ==
    IF v = 1 THEN <<"CP1_ads_per_order">>
    ELSE (CASE entity = "shipments" ->
                  <<"retailer_name", "city_category", "flag", "type_store_delivery",
                    "dt", "user_id", "shipment_id">>
            [] entity = "users" ->
                  <<"retailer_name", "city_category", "flag", "type_store_delivery",
                    "dt", "user_id">>
            [] entity = "retailers" ->
                  <<"retailer_name", "flag", "type_store_delivery", "dt">>
            [] entity = "cities" ->
                  <<"city_category", "flag", "type_store_delivery", "dt">>
            [] entity = "ret+city" ->
                  <<"retailer_name", "city_category", "flag", "type_store_delivery", "dt">>
            [] OTHER -> <<>>)
         \o <<Orders, "CP1_ads_per_order", "promo_per_order", "fulfillment_per_order",
              "gmv_per_order">>

\* The hover text of the point of row g: the column of each line and what
\* the line shows of it, a ratio with no decimal places.
HoverText(v, entity, g) ==
    [i \in 1..Len(HoverColumns(v, entity)) |->
        LET c == HoverColumns(v, entity)[i]
        IN  <<c, IF c \in RatioColumns THEN Format0(g[c]) ELSE g[c]>>]

\* The value at position k (from 0) of the sorted values of a column.
OrderStatistic(rows, col, k) ==
    CHOOSE x \in {rows[i][col] : i \in 1..Len(rows)} :
        LET below == Cardinality({i \in 1..Len(rows) : RatioLess(rows[i][col], x)})
            equal == Cardinality({i \in 1..Len(rows) : rows[i][col] = x})
        IN  below <= k /\ k < below + equal

\* Series.quantile(p / 100): the value at position (n - 1) * p / 100 of the
\* sorted values, interpolated linearly between its two neighbours.
Quantile(rows, col, p) ==
    LET pos == (Len(rows) - 1) * p
        lo == pos \div 100
        part == pos % 100
        a == OrderStatistic(rows, col, lo)
        b == OrderStatistic(rows, col, IF lo + 1 < Len(rows) THEN lo + 1 ELSE lo)
    IN  Div(a[1] * b[2] * (100 - part) + b[1] * a[2] * part, 100 * a[2] * b[2])

\* str(value)[:8]
Prefix8(s) == SubSeq(s, 1, IF Len(s) < 8 THEN Len(s) ELSE 8)

\* The name a ranking entry gives its row.
TopName(entity, g) ==
    CASE entity = "shipments" -> <<g["retailer_name"], Prefix8(g["user_id"])>>
      [] entity = "users" -> <<Prefix8(g["user_id"]), g["retailer_name"]>>
      [] entity = "retailers" -> <<g["retailer_name"]>>
      [] entity = "cities" -> <<g["city_category"]>>
      [] entity = "ret+city" -> <<g["retailer_name"], g["city_category"]>>
      [] OTHER -> <<>>

\* nlargest(n, col): the indices of the n rows with the greatest values,
\* greatest first, rows of equal value in their order in the frame.
RECURSIVE NLargest(_, _, _, _)
NLargest(n, rows, col, taken) ==
    IF n = 0 \/ Cardinality(taken) = Len(rows) THEN <<>>
    ELSE LET rest == (1..Len(rows)) \ taken
             best == CHOOSE i \in rest :
                        \A j \in rest :
                            /\ ~RatioLess(rows[i][col], rows[j][col])
                            /\ j < i => RatioLess(rows[j][col], rows[i][col])
         IN  <<best>> \o NLargest(n - 1, rows, col, taken \cup {best})

\* 'Топ-3 по CP1-ads' of scripts 2 and 3: the row, its name and its ratio
\* with no decimal places; script 1 prints no ranking.
TopList(v, rows, entity) ==
    IF v = 1 THEN <<>>
    ELSE LET top == NLargest(3, rows, "CP1_ads_per_order", {})
         IN  [k \in 1..Len(top) |->
                 [row |-> top[k], name |-> TopName(entity, rows[top[k]]),
                  value |-> Format0(rows[top[k]]["CP1_ads_per_order"])]]

\* cmin and cmax of the marker: the 5th and 95th percentile of the colour
\* column in scripts 2 and 3; script 1 sets none.
ColourRange(v, rows) ==
    IF v = 1 THEN Nothing
    ELSE Some(<<Quantile(rows, "CP1_ads_per_order", 5),
                Quantile(rows, "CP1_ads_per_order", 95)>>)

\* The figure: one point per stored row, labelled with the stored entity name
\* and coloured by the advertising ratio; scripts 2 and 3 write the filters
\* dictionary into the title.  With it, the ranking printed under the figure.
create_plot(v, data, entity, f) ==
    [rows |-> data, entity |-> entity, title |-> IF v = 1 THEN Nothing ELSE Some(f),
     colour |-> "CP1_ads_per_order",
     crange |-> ColourRange(v, data),
     text |-> [i \in 1..Len(data) |-> HoverText(v, entity, data[i])],
     top |-> TopList(v, data, entity)]

\* The plot button drawing a figure whether or not a result is stored.
PlotClickUnguarded ==
    /\ filters # Nothing
    /\ report' = Page("plot", "plot built", None, MissingColumns(variant, df), None)
    /\ plot' = Some(IF current_filtered_data = Nothing
                    THEN create_plot(1, <<>>, current_entity_name, The(filters))
                    ELSE create_plot(variant, The(current_filtered_data),
                                     current_entity_name, The(filters)))
    /\ df_after' = Some(df)
    /\ UNCHANGED <<variant, uploaded_file, filters, current_filtered_data,
                   current_entity_name>>

\* The user presses 'Построить График'.  Scripts 1 and 3 disable the button
\* while nothing is stored; script 2 answers the press with an error.
PlotClick ==
    /\ filters # Nothing
    /\ variant \in {1, 3} => current_filtered_data # Nothing
    /\ IF current_filtered_data = Nothing
       THEN /\ report' = Page("plot", "no data to plot", None,
                              MissingColumns(variant, df), None)
            /\ plot' = Nothing
       ELSE /\ report' = Page("plot", "plot built", None,
                              MissingColumns(variant, df), None)
            /\ plot' = Some(create_plot(variant, The(current_filtered_data),
                                        current_entity_name, The(filters)))
    /\ df_after' = Some(df)
    /\ UNCHANGED <<variant, uploaded_file, filters, current_filtered_data,
                   current_entity_name>>

Next ==
    \/ \E id \in DatasetIds : Upload(id)
    \/ RemoveFile
    \/ \E w \in Widgets : ChangeWidget(w)
    \/ ApplyClick
    \/ PlotClick

Spec == Init /\ [][Next]_vars

(***************************************************************************)
(* check_data_size and the plot on aggregated frames of every size: the    *)
(* frame analyze_data_by_granulation returns is drawn from frames of       *)
(* chosen lengths, around the two thresholds included.                     *)
(***************************************************************************)
\* One aggregated shipment of the first file, as grouped_metrics holds it.
ShipmentRow ==
    GroupedMetrics(2, <<Datasets[1].rows[1]>>,
                   GroupColumns(2, Datasets[1], "Shipment Level"))[1]

\* i written in base 16 with sixteen characters of the alphabet as digits,
\* for distinct shipment ids.
RECURSIVE Digits(_)
Digits(i) ==
    IF i = 0 THEN <<>>
    ELSE Digits(i \div 16) \o <<Alphabet[3 + (i % 16)]>>

\* Aggregated shipments with distinct ids, as many as the largest frame needs.
ManyShipments ==
    [i \in 1..(OversizedAbove + 1) |->
        [ShipmentRow EXCEPT !["shipment_id"] = <<"s">> \o Digits(i)]]

\* Small frames have up to this many rows.
MaxSmallFrame == 12

\* The lengths of the frames: the small ones and those around the thresholds.
FrameSizes ==
    (1..MaxSmallFrame)
        \cup {ResponsiveAbove - 1, ResponsiveAbove, ResponsiveAbove + 1,
              OversizedAbove, OversizedAbove + 1}

\* The first file is uploaded and the widgets show their defaults.
InitSized ==
    /\ variant \in 1..3
    /\ uploaded_file = 1
    /\ filters = FirstRun[variant][1].filters
    /\ current_filtered_data = Nothing
    /\ current_entity_name = None
    /\ report = FirstRun[variant][1].page
    /\ plot = Nothing
    /\ df_after = Nothing

\* The apply button, with analyze_data_by_granulation returning n shipments.
ApplySized(n) ==
    /\ filters # Nothing
    /\ \E out \in {CheckAggregated(variant, df, The(filters),
                                    [raised |-> None,
                                     data |-> Some(SubSeq(ManyShipments, 1, n)),
                                     entity |-> "shipments"],
                                    current_filtered_data, current_entity_name)} :
          /\ report' = out.page
          /\ current_filtered_data' = out.data
          /\ current_entity_name' = out.entity
    /\ plot' = Nothing
    /\ df_after' = Some(ObjectsAfterFilters(variant, df, The(filters))[DfObject])
    /\ UNCHANGED <<variant, uploaded_file, filters>>

NextSized ==
    \/ \E n \in FrameSizes : ApplySized(n)
    \/ PlotClick

SpecSized == InitSized /\ [][NextSized]_vars

(***************************************************************************)
(* The session from an apply that left no rows: the file stays in the      *)
(* uploader, the user changes widgets and presses the buttons.             *)
(***************************************************************************)
\* The first apply of a session, pressed on a selection that leaves no row.
InitRetry ==
    /\ variant \in 1..3
    /\ uploaded_file \in {id \in DatasetIds : ControlsShown(variant, id)}
    /\ \E old \in FirstRun[variant][uploaded_file].filters :
          \E w \in Widgets :
             \E value \in Choices(variant, df, old, w) \ {old[w]} :
                \E new \in {Redraw(variant, df, old, [old EXCEPT ![w] = value])} :
                   /\ Len(apply_filters(variant, df, new)) = 0
                   /\ filters = Some(new)
    /\ \E out \in {check_data_size(variant, df, The(filters), Nothing, None)} :
          /\ report = out.page
          /\ current_filtered_data = out.data
          /\ current_entity_name = out.entity
    /\ plot = Nothing
    /\ df_after = Some(df)

NextRetry ==
    \/ \E w \in Widgets : ChangeWidget(w)
    \/ ApplyClick
    \/ PlotClick

SpecRetry == InitRetry /\ [][NextRetry]_vars

TypeOK ==
    /\ variant \in 1..3
    /\ uploaded_file \in 0..Len(Datasets)
    /\ Cardinality(filters) <= 1
    /\ (filters # Nothing) = ControlsShown(variant, uploaded_file)
    /\ Cardinality(current_filtered_data) <= 1
    /\ Cardinality(plot) <= 1
    /\ (df_after # Nothing) = (report.button # "none")

(***************************************************************************)
(* Properties.                                                             *)
(***************************************************************************)
\* The selection the widgets hold and the rows it lets through.
Sel == The(filters)
Filtered == apply_filters(variant, df, Sel)
Stored == The(current_filtered_data)

\* The apply button was just handled and stored a result for the selection
\* on the page.
JustStored ==
    /\ report.button = "apply"
    /\ report.kind = "data ready"

\* The rows among `rows` that fall under the key of aggregated row g.
Members(rows, g) ==
    LET cols == GroupColumns(variant, df, Sel.granulation)
    IN  SelectSeq(rows, LAMBDA r : \A i \in 1..Len(cols) : r[cols[i]] = g[cols[i]])

\* C1: after a successful aggregation, the delivered orders summed over the
\* aggregated rows equal the delivered orders summed over the filtered rows,
\* rows with an empty grouping-key cell included.
C1_OrdersSumPreserved ==
    JustStored => ColumnSum(Stored, Orders) = ColumnSum(Filtered, Orders)

\* Fractions p and q are the same number.
SameNumber(p, q) == p[1] * q[2] = q[1] * p[2]

\* (sum of fractions, count) over a sequence of rows: the per-row ratios of a
\* metric, for their mean.
RECURSIVE SumOfRowRatios(_, _)
SumOfRowRatios(rows, col) ==
    IF rows = <<>> THEN <<0, 1>>
    ELSE LET rest == SumOfRowRatios(Tail(rows), col)
         IN  <<rows[1][col] * rest[2] + rest[1] * rows[1][Orders],
               rows[1][Orders] * rest[2]>>

MeanOfRowRatios(rows, col) ==
    <<SumOfRowRatios(rows, col)[1], SumOfRowRatios(rows, col)[2] * Len(rows)>>

\* C2: in every aggregated row each of the four ratios is the group's summed
\* metric divided by the group's summed delivered orders, the sums taken over
\* the filtered rows of the group.
C2_RatioOfSums ==
    JustStored =>
        \A rows \in {Filtered} : \A i \in 1..Len(Stored) :
            \A members \in {Members(rows, Stored[i])} : \A ratio \in RatioColumns :
                /\ Stored[i][ratio][2] # 0
                /\ SameNumber(Stored[i][ratio],
                              <<ColumnSum(members, Numerator(ratio)),
                                ColumnSum(members, Orders)>>)

\* A stored group of several rows whose ratio of sums differs from the mean
\* of its rows' ratios.
C2_Witness ==
    /\ JustStored
    /\ \E i \in 1..Len(Stored) : \E members \in {Members(Filtered, Stored[i])} :
          /\ Len(members) > 1
          /\ ~SameNumber(Stored[i]["CP1_ads_per_order"], MeanOfRowRatios(members, CP1))

\* C3: every aggregated row sums at least min_orders delivered orders, the
\* threshold is at least 1, and no ratio has a zero denominator.
C3_GroupOrdersAtLeastMin ==
    JustStored =>
        /\ Sel.min_orders >= 1
        /\ \A i \in 1..Len(Stored) :
              /\ Stored[i][Orders] >= Sel.min_orders
              /\ \A ratio \in RatioColumns : Stored[i][ratio][2] # 0

\* A result was stored while the threshold kept a raw row out.
C3_Witness ==
    /\ JustStored
    /\ Len(Stored) > 0
    /\ \E i \in 1..Len(df.rows) : df.rows[i][Orders] < Sel.min_orders

\* A dimension restriction is in force: the column is filtered on and the
\* sentinel is not among the chosen values.
Restricts(col, selected) == Filterable(variant, df, col) /\ Vse \notin selected

\* The row satisfies every predicate that is in force.
RowPasses(r) ==
    /\ (Filterable(variant, df, "NRR") /\ Sel.target_nrr # Vse) => r["NRR"] = Sel.target_nrr
    /\ Restricts("dt", Sel.dates) => r["dt"] \in Sel.dates
    /\ Restricts("flag", Sel.flags) => r["flag"] \in Sel.flags
    /\ Restricts("type_store_delivery", Sel.delivery) => r["type_store_delivery"] \in Sel.delivery
    /\ Restricts("retailer_name", Sel.retailers) => r["retailer_name"] \in Sel.retailers
    /\ Restricts("city_category", Sel.cities) => r["city_category"] \in Sel.cities
    /\ (Filterable(variant, df, "retailer_name") /\ Sel.retailer_search # <<>>)
          => StrContains(r["retailer_name"], Sel.retailer_search)
    /\ r[Orders] >= Sel.min_orders

Reverse(s) == [i \in 1..Len(s) |-> s[Len(s) + 1 - i]]
Rotate(s, k) == [i \in 1..Len(s) |-> s[((i + k - 1) % Len(s)) + 1]]

\* Orders of applying the predicates: every rotation of the code's order and
\* of its reverse.
OtherOrders ==
    {Rotate(FilterOrder, k) : k \in 0..(Len(FilterOrder) - 1)}
        \cup {Rotate(Reverse(FilterOrder), k) : k \in 0..(Len(FilterOrder) - 1)}

\* C4: when the apply button is handled, apply returns exactly the raw rows
\* that satisfy every predicate in force, whatever the order the predicates
\* are applied in.
C4_ExactlyPassingRows ==
    (report.button = "apply" /\ ApplyError(variant, df, Sel) = None) =>
        \A rows \in {Filtered} :
            /\ rows = SelectSeq(df.rows, RowPasses)
            /\ \A order \in OtherOrders :
                  FilterChain(variant, df, Sel, order, df.rows) = rows

\* The apply button was handled with a dimension restriction and the
\* threshold each keeping out a row the other lets through.
C4_Witness ==
    /\ report.button = "apply"
    /\ ApplyError(variant, df, Sel) = None
    /\ \E col \in {"dt", "retailer_name", "city_category"} :
          /\ Restricts(col, Sel[IF col = "dt" THEN "dates"
                                ELSE IF col = "retailer_name" THEN "retailers"
                                ELSE "cities"])
          /\ Len(Filtered) > 0
          /\ Len(Filtered) < Len(FilterMinOrders(Sel, df.rows))
    /\ Len(FilterMinOrders(Sel, df.rows)) < Len(df.rows)

\* Every restriction is the sentinel, no search text, threshold 1.
Unrestricted ==
    /\ filters # Nothing
    /\ Sel.target_nrr = Vse
    /\ Sel.dates = {Vse} /\ Sel.flags = {Vse} /\ Sel.delivery = {Vse}
    /\ Sel.retailers = {Vse} /\ Sel.cities = {Vse}
    /\ Sel.retailer_search = <<>>
    /\ Sel.min_orders = 1

\* C5 as claimed: with an unrestricted selection apply returns the whole raw
\* dataset.
C5_Identity == Unrestricted => Filtered = df.rows

\* C5 amended: with an unrestricted selection apply returns, in order, the
\* raw rows with at least one delivered order.
C5_IdentityButZeroOrders ==
    Unrestricted => Filtered = SelectSeq(df.rows, LAMBDA r : r[Orders] >= 1)

\* The apply button was handled on an unrestricted selection over a dataset
\* with a row without delivered orders.
C5_Witness ==
    /\ Unrestricted
    /\ JustStored
    /\ \E i \in 1..Len(df.rows) : df.rows[i][Orders] = 0

\* C6: when the filters leave no rows, the apply button reports the 'no
\* matching rows' outcome and nothing else.
C6_EmptyReportedAsNoData ==
    (/\ report.button = "apply"
     /\ ApplyError(variant, df, Sel) = None
     /\ Len(Filtered) = 0)
        => report.kind = "no data"

\* A press of a button that ended in an error message.
Failed(page) ==
    /\ page.button \in {"apply", "plot"}
    /\ page.kind \in {"no data", "read error", "no data to plot"}

\* C7 as claimed: a failed apply or plot leaves the stored result and the
\* stored entity label as they were.
C7_FailureKeepsStored ==
    [][Failed(report') =>
          /\ current_filtered_data' = current_filtered_data
          /\ current_entity_name' = current_entity_name]_vars

\* C7 amended: a failed apply or plot leaves the uploaded file, the filter
\* selection and the stored entity label as they were; the stored result is
\* as it was too, except that script 1 clears it when no row is left.
C7_FailureKeepsOrClears ==
    [][Failed(report') =>
          /\ uploaded_file' = uploaded_file
          /\ filters' = filters
          /\ current_entity_name' = current_entity_name
          /\ current_filtered_data' =
                IF variant = 1 /\ report'.kind = "no data"
                THEN Nothing ELSE current_filtered_data]_vars

\* An apply that left no rows came after a successful one: the label of the
\* earlier result is still stored, the result itself is gone.
C7_Witness ==
    /\ report.button = "apply"
    /\ report.kind = "no data"
    /\ current_filtered_data = Nothing
    /\ current_entity_name # None

\* C8: a plot shows the aggregation of the selection and granularity the
\* widgets hold when the plot button is pressed.
C8_PlotShowsCurrentSelection ==
    plot # Nothing =>
        \E res \in {analyze_data_by_granulation(variant, df, Sel)} :
            /\ res.raised = None
            /\ res.data = Some(The(plot).rows)
            /\ res.entity = The(plot).entity

\* C9: a file lacking a metric column is answered with the list of exactly
\* the missing metric columns, and no widget or button is offered.
C9_MissingMetricBlocks ==
    (uploaded_file # 0 /\ ~(MetricColumns \subseteq df.columns)) =>
        /\ report.kind = "missing columns"
        /\ Range(report.missing) = MetricColumns \ df.columns
        /\ filters = Nothing

\* C10: a file with the five metric columns is loaded, filtered and aggregated
\* without a validation or runtime error, whichever dimension columns it has.
C10_DimensionsOptional ==
    (uploaded_file # 0 /\ MetricColumns \subseteq df.columns) =>
        report.kind \notin {"missing columns", "read error"}

\* The dimension columns of the stored frame: its grouping key.
StoredKey == (DOMAIN Stored[1]) \cap DimensionColumns

\* The primary key that belongs to a stored entity label.
PrimaryOf(entity) ==
    CASE entity = "shipments" -> <<"user_id", "shipment_id">>
      [] entity = "users" -> <<"user_id">>
      [] entity = "retailers" -> <<"retailer_name">>
      [] entity = "cities" -> <<"city_category">>
      [] entity = "dates" -> <<"dt">>
      [] entity = "ret+city" -> <<"retailer_name">>
      [] OTHER -> <<>>

\* The optional columns in their fixed order that are in the file and not in
\* the key `primary`.
PresentOptional(primary) ==
    SelectSeq(<<"dt", "flag", "type_store_delivery", "retailer_name", "city_category">>,
              LAMBDA c : c \in df.columns /\ c \notin Range(primary))

\* The key the three scripts group by, told by the stored entity label:
\* script 1 appends every present optional column; scripts 2 and 3 leave
\* city_category out of the retailer level and retailer_name out of the city
\* level.
KeyInUse ==
    IF variant = 1 THEN PrimaryOf(current_entity_name)
                        \o PresentOptional(PrimaryOf(current_entity_name))
    ELSE SelectSeq(PrimaryOf(current_entity_name)
                       \o PresentOptional(PrimaryOf(current_entity_name)),
                   LAMBDA c : /\ ~(current_entity_name = "retailers" /\ c = "city_category")
                              /\ ~(current_entity_name = "cities" /\ c = "retailer_name"))

\* The stored rows are in ascending order of their keys under `key`.
SortedBy(key) ==
    \A i \in 1..(Len(Stored) - 1) :
        KeyLess(KeyOf(Stored[i], key), KeyOf(Stored[i + 1], key))

C12_OverallIsOneRow ==
    (JustStored /\ Sel.granulation = "Overall Level") =>
        /\ Len(Stored) = 1
        /\ \A c \in MetricColumns : Stored[1][c] = ColumnSum(Filtered, c)

\* C13: the result an apply stores is the aggregation of the uploaded file
\* under the selection on the page and of nothing else: the same file and
\* selection give the same rows and entity label, whatever was stored or done
\* before.
C13_ResultOfInputsOnly ==
    JustStored =>
        \A res \in {analyze_data_by_granulation(variant, df, Sel)} :
            /\ res.raised = None
            /\ current_filtered_data = res.data
            /\ current_entity_name = res.entity

\* A result of several rows was stored for a selection that is not the one
\* the widgets start with.
C13_Witness ==
    /\ JustStored
    /\ Len(Stored) > 1
    /\ Sel # The(FirstRun[variant][uploaded_file].filters)

\* The tier the size rule gives a count of aggregated rows.
TierOf(n) ==
    IF n <= 5000 THEN "comfortable"
    ELSE IF n <= 10000 THEN "responsive"
    ELSE "oversized"

\* C14: every successful apply puts the aggregated row count into its tier,
\* and the running script classifies 5000, 5001, 10000 and 10001 rows as
\* comfortable, responsive, responsive and oversized.
C14_TierReported ==
    JustStored =>
        /\ report.tier = TierOf(Len(Stored))
        /\ \A n \in {5000, 5001, 10000, 10001} : SizeTier(variant, n) = TierOf(n)

\* C15: whatever the size of the aggregated frame, above 10,000 rows
\* included, the apply stores it, with the size message of its tier in
\* scripts 2 and 3, and the plot that follows is built from it.
C15_TierNeverBlocks ==
    /\ report.button = "apply" =>
          /\ report.kind = "data ready"
          /\ current_filtered_data # Nothing
          /\ variant # 1 => report.tier = TierOf(Len(Stored))
    /\ (report.button = "plot" /\ current_filtered_data # Nothing) =>
          /\ report.kind = "plot built"
          /\ plot # Nothing
          /\ The(plot).rows = Stored

\* A plot of more than 10,000 aggregated rows was built.
C15_Witness ==
    /\ report.kind = "plot built"
    /\ plot # Nothing
    /\ Len(The(plot).rows) > 10000

\* nlargest(1, col): the first of the rows with the greatest value in col.
Largest(rows, col) ==
    rows[CHOOSE i \in 1..Len(rows) :
            /\ \A j \in 1..Len(rows) : ~RatioLess(rows[i][col], rows[j][col])
            /\ \A j \in 1..(i - 1) : RatioLess(rows[j][col], rows[i][col])]

\* The aggregated row g is retailer `name` with `orders` delivered orders and
\* the four ratios ads, promo, fulfillment and gmv per order.
IsExampleRow(g, name, orders, ads, promo, fulfillment, gmv) ==
    /\ g["retailer_name"] = S(name)
    /\ g[Orders] = orders
    /\ g["CP1_ads_per_order"] = ads
    /\ g["promo_per_order"] = promo
    /\ g["fulfillment_per_order"] = fulfillment
    /\ g["gmv_per_order"] = gmv

\* The aggregated rows the end-to-end example expects.
IsExampleResult(rows) ==
    /\ Len(rows) = 2
    /\ IsExampleRow(rows[1], "A", 20, <<5, 1>>, <<2, 1>>, <<3, 1>>, <<15, 1>>)
    /\ IsExampleRow(rows[2], "B", 15, <<6, 1>>, <<2, 1>>, <<3, 1>>, <<40, 3>>)
    /\ Largest(rows, "CP1_ads_per_order")["retailer_name"] = S("B")

\* The example's three rows in a file that has every column scripts 2 and 3
\* require, and what these scripts aggregate from it at the retailer level
\* with the widgets as they start.
ExampleAllColumns ==
    Frame(AllColumns,
          [i \in 1..Len(ExampleRows) |->
              [c \in AllColumns |->
                  IF c \in {"NRR", "dt", "flag", "type_store_delivery"}
                  THEN (IF c = "NRR" THEN Starichok ELSE S("1"))
                  ELSE IF c \in {"user_id", "shipment_id"}
                  THEN <<"u", IF i = 3 THEN "2" ELSE "1">>
                  ELSE ExampleRows[i][c]]])

ExampleRun ==
    [v \in {2, 3} |->
        analyze_data_by_granulation(
            v, ExampleAllColumns,
            [DefaultFilters(v, ExampleAllColumns) EXCEPT !.granulation = "Retailer Level"])]

\* C16: on the three-row example with a minimum of 10 orders and the retailer
\* granularity the apply stores two rows: A with 20 orders and the ratios 5,
\* 2, 3 and 15 (the row of 5 orders is left out), B with 15 orders and the
\* ratios 6, 2, 3 and 200/15; B is the top row by ads per order.  Script 1
\* runs on the file as given, scripts 2 and 3 on the same rows in a file with
\* all their required columns.
C16_Example ==
    /\ ( /\ uploaded_file = 2
         /\ JustStored
         /\ Sel.granulation = "Retailer Level"
         /\ Sel.min_orders = 10
         /\ Sel.retailers = {Vse} /\ Sel.cities = {Vse}
         /\ Sel.retailer_search = <<>> )
       => IsExampleResult(Stored)
    /\ \A v \in {2, 3} :
          /\ ExampleRun[v].raised = None
          /\ ExampleRun[v].data # Nothing
          /\ IsExampleResult(The(ExampleRun[v].data))

\* The example's result was stored.
C16_Witness ==
    /\ uploaded_file = 2
    /\ JustStored
    /\ Sel.granulation = "Retailer Level"
    /\ Sel.min_orders = 10
    /\ Len(Stored) = 2

\* The multiselect filters of the selection.
Multiselects == {"dates", "flags", "delivery", "retailers", "cities"}

\* C17: a multiselect with nothing chosen filters like the same multiselect
\* with the 'all' entry chosen; it never acts as 'match no row'.
C17_EmptyMeansAll ==
    filters # Nothing =>
        \A w \in Multiselects :
            Sel[w] = {} =>
                Filtered = apply_filters(variant, df, [Sel EXCEPT ![w] = {Vse}])

\* The rows whose retailer name contains the term as it is written, ignoring
\* case.
LiteralMatches(rows, term) ==
    SelectSeq(rows, LAMBDA r : /\ r["retailer_name"] # NaN
                               /\ Contains(Lower(r["retailer_name"]), Lower(term)))

\* C18: with a search term entered, the apply does not fail on the term and
\* keeps, of the rows the other filters keep, exactly those whose retailer
\* name contains the term literally, ignoring case.
C18_LiteralSearch ==
    (filters # Nothing /\ Sel.retailer_search # <<>>
        /\ Filterable(variant, df, "retailer_name")) =>
        /\ ApplyError(variant, df, Sel) # "re.error"
        /\ Filtered = LiteralMatches(
                          apply_filters(variant, df, [Sel EXCEPT !.retailer_search = <<>>]),
                          Sel.retailer_search)

\* C19: whatever was applied and plotted before, the frame read from the
\* uploaded file has, when the apply or the plot ends, the columns, rows and
\* values of the file.
C19_RawFrameUntouched ==
    report.button # "none" => df_after = Some(Datasets[uploaded_file])

\* A plot was built from a result whose filters had removed rows, and the
\* frame still holds every row of the file.
C19_Witness ==
    /\ report.kind = "plot built"
    /\ Len(Filtered) < Len(df.rows)
    /\ df_after = Some(df)

\* C20: in a session whose first apply left no rows, every later apply on
\* the same file whose selection lets at least one row through stores the
\* aggregation of that selection and leaves the plot button usable.
C20_RetrySucceeds ==
    (report.button = "apply" /\ Len(Filtered) > 0) =>
        /\ report.kind = "data ready"
        /\ \E res \in {analyze_data_by_granulation(variant, df, Sel)} :
              /\ res.raised = None
              /\ current_filtered_data = res.data
              /\ current_entity_name = res.entity
        /\ current_filtered_data # Nothing

\* C21: whenever an apply has aggregated rows to summarise, every column
\* whose distinct values the summary counts for the chosen granularity is a
\* column of the aggregated rows.
C21_SummaryColumnsAggregated ==
    report.button = "apply" =>
        \A res \in {analyze_data_by_granulation(variant, df, Sel)} :
            (res.raised = None /\ res.data # Nothing) =>
                SummaryColumns(variant, res.entity) \subseteq DOMAIN The(res.data)[1]

\* The lines of the hover text of point i of the figure on the page.
HoverLines(i) == Range(The(plot).text[i])

\* C22: the hover text of every plotted point shows the value of every
\* column of the row's grouping key and each of the four ratios with no
\* decimal places.
C22_HoverShowsKeyAndRatios ==
    plot # Nothing =>
        \A i \in 1..Len(The(plot).rows) :
            \A g \in {The(plot).rows[i]} :
                /\ \A c \in (DOMAIN g) \cap DimensionColumns : <<c, g[c]>> \in HoverLines(i)
                /\ \A c \in RatioColumns : <<c, Format0(g[c])>> \in HoverLines(i)

\* The advertising ratios of the plotted rows.
PlottedRatios == {The(plot).rows[i]["CP1_ads_per_order"] : i \in 1..Len(The(plot).rows)}

\* How many plotted ratios are below x, and how many are not above it.
Below(x) ==
    Cardinality({i \in 1..Len(The(plot).rows) :
                    RatioLess(The(plot).rows[i]["CP1_ads_per_order"], x)})
UpTo(x) ==
    Cardinality({i \in 1..Len(The(plot).rows) :
                    ~RatioLess(x, The(plot).rows[i]["CP1_ads_per_order"])})

\* x is the p-th percentile of the plotted advertising ratios: with the
\* sorted values a at index lo and b at the next index, where lo and part are
\* the whole and the hundredths of (n - 1) * p / 100, x = a + (b - a) * part / 100.
IsPercentile(x, p) ==
    LET pos == (Len(The(plot).rows) - 1) * p
        lo == pos \div 100
        part == pos % 100
    IN  \E a, b \in PlottedRatios :
            /\ Below(a) <= lo /\ lo < UpTo(a)
            /\ IF part = 0 THEN b = a ELSE Below(b) <= lo + 1 /\ lo + 1 < UpTo(b)
            /\ 100 * x[1] * a[2] * b[2]
                  = x[2] * (a[1] * b[2] * (100 - part) + b[1] * a[2] * part)

\* C23: every figure has one point per stored aggregated row, is coloured by
\* the advertising ratio, and has the colour range set to the 5th and the
\* 95th percentile of that ratio over the plotted rows, the lower bound not
\* above the upper.
C23_ColourRangeIsPercentiles ==
    plot # Nothing =>
        /\ The(plot).rows = Stored
        /\ Len(The(plot).text) = Len(Stored)
        /\ The(plot).colour = "CP1_ads_per_order"
        /\ The(plot).crange # Nothing
        /\ \A range \in The(plot).crange :
              /\ IsPercentile(range[1], 5)
              /\ IsPercentile(range[2], 95)
              /\ ~RatioLess(range[2], range[1])

\* The advertising ratio of plotted row i.
AdsRatio(i) == The(plot).rows[i]["CP1_ads_per_order"]

\* C24: every figure comes with a ranking by advertising ratio: it has
\* min(3, number of rows) entries for distinct rows, in non-increasing order
\* of the ratio, no row outside it has a greater ratio than a row in it, and
\* every entry shows the values of its row's primary key and its row's ratio.
C24_TopThreeRanking ==
    plot # Nothing =>
        \A top \in {The(plot).top} :
            /\ Len(top) = (IF Len(Stored) < 3 THEN Len(Stored) ELSE 3)
            /\ \A k \in 1..Len(top) : top[k].row \in 1..Len(The(plot).rows)
            /\ \A k, l \in 1..Len(top) : k < l =>
                  /\ top[k].row # top[l].row
                  /\ ~RatioLess(AdsRatio(top[k].row), AdsRatio(top[l].row))
            /\ \A i \in 1..Len(The(plot).rows) :
                  (\A k \in 1..Len(top) : top[k].row # i) =>
                      \A k \in 1..Len(top) : ~RatioLess(AdsRatio(top[k].row), AdsRatio(i))
            /\ \A k \in 1..Len(top) :
                  /\ top[k].value = Format0(AdsRatio(top[k].row))
                  /\ \A c \in Range(PrimaryOf(The(plot).entity)) :
                        The(plot).rows[top[k].row][c] \in Range(top[k].name)

\* C25: a step builds a figure only as a press of the plot button with a
\* result stored, and from that result; a press of the plot button with
\* nothing stored reports that there is no data and builds nothing; and a
\* result gets stored only by an apply that succeeded, so no figure comes
\* before the first successful apply.
C25_PlotOnlyAfterApply ==
    [][/\ plot' # Nothing =>
             /\ report'.button = "plot"
             /\ current_filtered_data # Nothing
             /\ The(plot').rows = The(current_filtered_data)
       /\ (report'.button = "plot" /\ current_filtered_data = Nothing) =>
             /\ report'.kind = "no data to plot"
             /\ plot' = Nothing
       /\ (current_filtered_data = Nothing /\ current_filtered_data' # Nothing) =>
             /\ report'.button = "apply"
             /\ report'.kind = "data ready"]_vars

\* The plot button was pressed with nothing stored and no figure was built.
C25_Witness ==
    /\ report.button = "plot"
    /\ report.kind = "no data to plot"
    /\ current_filtered_data = Nothing
    /\ plot = Nothing

\* The sum of column c over the rows of frame d with the indices in M.
RECURSIVE SumOver(_, _, _)
SumOver(d, M, c) ==
    IF M = {} THEN 0
    ELSE LET m == CHOOSE m \in M : TRUE
         IN  d.rows[m][c] + SumOver(d, M \ {m}, c)

\* The aggregated row g is the aggregate of some rows of frame d: rows that
\* carry g's key and whose metrics add up to g's sums.
DerivesFrom(g, d) ==
    /\ (DOMAIN g) \cap (DimensionColumns \cup MetricColumns) \subseteq d.columns
    /\ \E M \in (SUBSET (1..Len(d.rows))) \ {{}} :
          /\ \A m \in M : \A c \in (DOMAIN g) \cap DimensionColumns : d.rows[m][c] = g[c]
          /\ \A c \in (DOMAIN g) \cap MetricColumns : g[c] = SumOver(d, M, c)

\* C26: the stored result belongs to the file in the uploader: each of its
\* rows aggregates rows of that file, so after an upload no figure shows a
\* result computed from the file before.
C26_StoredBelongsToLoadedFile ==
    /\ (uploaded_file # 0 /\ current_filtered_data # Nothing) =>
          \A i \in 1..Len(Stored) : DerivesFrom(Stored[i], df)
    /\ plot # Nothing =>
          \A i \in 1..Len(The(plot).rows) : DerivesFrom(The(plot).rows[i], df)

\* The cities of the rows of frame d whose retailer is one of the chosen.
CitiesOf(d, retailers) ==
    {d.rows[i]["city_category"] :
        i \in {j \in 1..Len(d.rows) : d.rows[j]["retailer_name"] \in retailers}}

\* C27: the city widget offers 'all' and the cities of the rows of the chosen
\* retailers when specific retailers are chosen, and every city of the file
\* when 'all' or nothing is chosen.
C27_CitiesFollowRetailers ==
    (filters # Nothing /\ Has(df, "city_category")) =>
        Choices(variant, df, Sel, "cities") =
            SUBSET (IF Vse \in Sel.retailers \/ Sel.retailers = {}
                    THEN WithVse(df, "city_category")
                    ELSE {Vse} \cup CitiesOf(df, Sel.retailers))

\* C28: a step that leaves a result stored and changed the stored result or
\* the stored label wrote both, from one call of the aggregation on the file
\* and selection of that step; a figure carries the stored label with the
\* stored rows.
C28_LabelWrittenWithResult ==
    [][/\ (/\ current_filtered_data' # Nothing
           /\ <<current_filtered_data, current_entity_name>>'
                 # <<current_filtered_data, current_entity_name>>) =>
             /\ filters # Nothing
             /\ \E res \in {analyze_data_by_granulation(variant, df, The(filters))} :
                   /\ res.raised = None
                   /\ current_filtered_data' = res.data
                   /\ current_entity_name' = res.entity
       /\ plot' # Nothing =>
             /\ The(plot').rows = The(current_filtered_data')
             /\ The(plot').entity = current_entity_name']_vars

\* An apply at the city level stored rows keyed by city under the label
\* 'cities'.
C28_Witness ==
    /\ JustStored
    /\ current_entity_name = "cities"
    /\ "city_category" \in StoredKey
    /\ Sel.granulation = "City Level"

\* The column a level of script 1 groups by first.
LevelColumn(level) ==
    CASE level = "Date Level" -> "dt"
      [] level = "Retailer Level" -> "retailer_name"
      [] level = "City Level" -> "city_category"
      [] OTHER -> "user_id"

\* C29: in script 1 the shipment and user levels are on offer only for a file
\* with user_id and shipment_id; a date, retailer or city level whose column
\* the file lacks is aggregated as the overall level is, one row of totals
\* labelled 'overall'; and the label names the grouping of the stored rows:
\* the label's columns are in their key, and 'overall' rows have no key.
C29_FallbackToOverall ==
    (filters # Nothing /\ variant = 1) =>
        /\ Sel.granulation \in {"Shipment Level", "User Level"} =>
              Has(df, "user_id") /\ Has(df, "shipment_id")
        /\ (/\ JustStored
            /\ Sel.granulation \in {"Date Level", "Retailer Level", "City Level"}
            /\ ~Has(df, LevelColumn(Sel.granulation))) =>
              /\ current_entity_name = "overall"
              /\ Len(Stored) = 1
              /\ \A c \in MetricColumns : Stored[1][c] = ColumnSum(Filtered, c)
        /\ JustStored =>
              /\ Range(PrimaryOf(current_entity_name)) \subseteq StoredKey
              /\ current_entity_name = "overall" => StoredKey = {}

\* C30: a multiselect that holds the 'all' entry together with specific
\* values restricts nothing: the filtered rows are those of the same
\* selection with 'all' alone in that multiselect.
C30_AllWithValuesIsAll ==
    filters # Nothing =>
        \A w \in Multiselects :
            (Vse \in Sel[w] /\ Sel[w] # {Vse}) =>
                Filtered = apply_filters(variant, df, [Sel EXCEPT ![w] = {Vse}])

\* An apply stored a result for a selection in which a multiselect holds
\* 'all' beside specific values that alone would have dropped rows.
C30_Witness ==
    /\ JustStored
    /\ \E w \in Multiselects :
          /\ Vse \in Sel[w]
          /\ Sel[w] # {Vse}
          /\ apply_filters(variant, df, [Sel EXCEPT ![w] = Sel[w] \ {Vse}]) # Filtered
====
